---- MODULE Spec2Model ----
(***************************************************************************)
(* Moderation bots of the link-remover-bot repository as one state machine. *)
(*                                                                         *)
(* The repository holds four independent bot scripts; a deployment runs    *)
(* exactly one of them, so the variable `variant` is fixed by Init:        *)
(*   "index" : src/index.js            (MongoDB anti-spam bot, captcha)     *)
(*   "gm"    : src/unnamed/part_000    (GroupManagerBot, sqlite warnings)   *)
(*   "v1"    : src/unnamed/part_001 lines 1-91   (link bot, mute at 3)      *)
(*   "v2"    : src/unnamed/part_001 lines 93-190 (link bot, kick at 3)      *)
(*                                                                         *)
(* Every handler is one action.  Platform calls (Telegram API) are not     *)
(* state of the bot: each handler records the calls it made, in order and  *)
(* with their outcome, in `last`, together with what it was given.  The    *)
(* clock is sampled in whole seconds.                                      *)
(***************************************************************************)
EXTENDS Integers, Sequences, FiniteSets, TLC

VARIABLES
    variant,        \* which script is running
    now,            \* Date.now(), in seconds
    memberStatus,   \* platform: getChatMember(chat, user).status, per user
    groups,         \* index.js groupsCol: chat -> settings document (lazily created)
    globals,        \* index.js globalsCol document 'globals'
    messageWindow,  \* index.js messageWindow[chat][user]: timestamps
    captchaStore,   \* index.js captchaStore[`${chat}_${user}`]
    timers,         \* index.js pending setTimeout expiry checks
    warnings,       \* part_000 table warnings(user_id, chat_id) -> warnings
    chatCfg,        \* part_000 tables banned_words / banned_languages, per chat
    userDocs,       \* part_001 mongoose User collection: userId -> warnings
    inflight,       \* index.js handlers suspended at an await, oldest first
    issued,         \* platform requests issued so far, per challenge and kind
    last            \* the event handled last and what its handler did

vars == << variant, now, memberStatus, groups, globals, messageWindow,
           captchaStore, timers, warnings, chatCfg, userDocs, inflight, issued,
           last >>

-----------------------------------------------------------------------------
(* Bounds of the exploration *)

\* stored part_000 warning counts explored (violations at the cap are not sent)
WarnCap == 5
\* pending expiry timers explored per (chat,user) (joins at the cap are not sent)
MaxTimers == 2
\* handlers suspended at one time (events at the cap are not sent)
MaxInflight == 2
\* requests explored per challenge (answers at the cap are not sent)
MaxIssued == 4
\* messages of one sender explored in the overlapping flood handlers
MaxRecorded == 8

(* Program constants *)
MAX_WARNINGS == 3
MuteThreshold == 3
CaptchaTtlSec == 120
CaptchaTimerSec == 125
CaptchaMaxTries == 3
DefaultFloodLimit == 5
DefaultFloodWindowSec == 7

Variants == {"index", "gm", "v1", "v2"}
Users == {1, 2}
Chats == {1, 2}
Roles == {"member", "administrator", "creator"}

\* The instants at which the environment samples the clock: around the flood
\* window (7 s) and around the captcha deadline (120 s) and its timer (125 s).
Instants == {0, 1, 7, 8, 120, 121, 125, 126}

\* index.js:50 ADMIN_IDS comes from the environment; part_000:7 is the literal [].
ADMIN_IDS == {2}
GM_ADMIN_IDS == {}

SeqHas(q, x) == \E i \in 1..Len(q) : q[i] = x

Key(c, u) == << c, u >>
Keys == Chats \X Users

-----------------------------------------------------------------------------
(* Recording of platform calls *)

Call(op, ok) == [op |-> op, ok |-> ok]

\* `try { await call(); await incStat(chatId, 'banned'); } catch (e) {}`
KickAndCount(ok) ==
    IF ok THEN << Call("kickChatMember", TRUE), Call("incStat", TRUE) >>
    ELSE << Call("kickChatMember", FALSE) >>

Made(calls, op) == \E i \in 1..Len(calls) : calls[i].op = op
MadeOk(calls, op) == \E i \in 1..Len(calls) : calls[i].op = op /\ calls[i].ok
CountOf(calls, op) == Cardinality({i \in 1..Len(calls) : calls[i].op = op})

\* what a command event keeps of the command handled just before it
NoPrior == [gate |-> "none", stage |-> "none", chat |-> 0, text |-> << >>,
            before |-> << >>]
Prior(ev) == [gate |-> ev.gate, stage |-> ev.stage, chat |-> ev.chat,
              text |-> ev.text, before |-> ev.before]

NoEvent ==
    [kind |-> "none", user |-> 0, chat |-> 0, stage |-> "none", gate |-> "none",
     matched |-> {}, evaluated |-> << >>, reasons |-> << >>, calls |-> << >>,
     before |-> << >>, countBefore |-> 0, count |-> 0,
     text |-> << >>, oracle |-> "none", left |-> 0, triesBefore |-> 0,
     bot |-> FALSE, prior |-> NoPrior]

-----------------------------------------------------------------------------
(* index.js : documents and detectors *)

\* index.js getGroup: the document inserted on the first reference to a chat
DefaultGroup ==
    [captcha |-> TRUE, autoBan |-> TRUE,
     floodLimit |-> DefaultFloodLimit, floodWindowSec |-> DefaultFloodWindowSec,
     welcome |-> "default", whitelist |-> {}, blacklist |-> {}]

\* the document getGroup(chatId) returns, and the collection after the call
getGroup(c) == IF c \in DOMAIN groups THEN groups[c] ELSE DefaultGroup
GroupsAfterGet(c) == (c :> getGroup(c)) @@ groups

\* A text is known by what the detectors of index.js find in it:
\*   "script" chineseRegex or russianRegex, "adult" an adultKeywords entry,
\*   "url" urlRegex.  The sender's handle is known by isUsernameSpam.
IndexFeatures == {"script", "adult", "url"}
\* what the call of the oracle comes to: a top label with or without 'spam',
\* a thrown fetch or json(), a body of another shape, or no fetch function
OracleAnswers == {"spam", "ham", "error", "garbled", "absent"}
IndexMessages ==
    [usernameSpam : BOOLEAN, oracle : OracleAnswers, feats : SUBSET IndexFeatures]
CleanMessage == [usernameSpam |-> FALSE, oracle |-> "ham", feats |-> {}]

isUsernameSpam(usernameSpam) == usernameSpam

hfSpamCheckFailClosed(oracle) == oracle # "ham"
\* hfSpamCheck: true only for a parsed answer whose top label contains 'spam';
\* a thrown fetch, an unparsable body or a missing fetch all give false
hfSpamCheck(oracle) == oracle = "spam"

\* isUserAdmin: the platform role, or ADMIN_IDS when the lookup throws
isUserAdmin(u, lookupOk) ==
    IF lookupOk THEN memberStatus[u] \in {"administrator", "creator"}
    ELSE u \in ADMIN_IDS

\* generateCaptcha: a, b = floor(random * 9) + 1
CaptchaOperands == {1, 9}
generateCaptchaProduct(a, b) == [question |-> << a, b >>, answer |-> a * b]
generateCaptcha(a, b) == [question |-> << a, b >>, answer |-> a + b]

\* messageWindow[chatId][userId].push(now); filter(ts => ts > cutoff)
FloodCutoff(settings) ==
    now - (IF settings.floodWindowSec = 0 THEN DefaultFloodWindowSec
           ELSE settings.floodWindowSec)
FloodRecordInclusive(w, settings) ==
    SelectSeq(Append(w, now), LAMBDA ts : ts >= FloodCutoff(settings))
FloodRecord(w, settings) ==
    SelectSeq(Append(w, now), LAMBDA ts : ts > FloodCutoff(settings))
FloodOn(settings) == settings.floodLimit > 0
isFlooding(w, settings) == Len(w) > settings.floodLimit

\* deleteAndAct: the calls it makes, given which kinds of call fail
deleteAndAct(c, fails) ==
    << Call("deleteMessage", "delete" \notin fails) >>
    \o (IF getGroup(c).autoBan
        THEN KickAndCount("kick" \notin fails)
             \o << Call("sendMessage:banned", "send" \notin fails) >>
        ELSE << Call("sendMessage:warned", "send" \notin fails) >>)

\* The rules a message matches, whether or not the pipeline gets to them
IndexMatched(c, u, m) ==
    LET s == getGroup(c) IN
    {r \in {"username"} : isUsernameSpam(m.usernameSpam)}
    \cup {r \in {"oracle"} : hfSpamCheck(m.oracle)}
    \cup {r \in {"script"} : "script" \in m.feats}
    \cup {r \in {"adult"} : "adult" \in m.feats}
    \cup {r \in {"link"} : "url" \in m.feats}
    \cup {r \in {"flood"} : FloodOn(s)
                            /\ isFlooding(FloodRecord(messageWindow[Key(c, u)], s), s)}

Verdict(stage, evaluated, reasons, calls, window) ==
    [stage |-> stage, evaluated |-> evaluated, reasons |-> reasons,
     calls |-> calls, window |-> window]

\* The position in `order` of the first rule that is in `matched`; 0 if none
FirstMatch(order, matched) ==
    IF \E i \in 1..Len(order) : order[i] \in matched
    THEN CHOOSE i \in 1..Len(order) :
           /\ order[i] \in matched
           /\ \A j \in 1..(i - 1) : order[j] \notin matched
    ELSE 0

IndexRuleOrderLinkFirst ==
    << "link", "username", "oracle", "script", "adult", "flood" >>
\* moderateMessage lines 227-278: the order of its `if (...) { ...; return; }`
IndexRuleOrder == << "username", "oracle", "script", "adult", "link", "flood" >>

IndexReason(rule) ==
    CASE rule = "username" -> "Suspicious username"
      [] rule = "oracle" -> "AI (HuggingFace) Spam Detected"
      [] rule = "script" -> "Foreign language spam"
      [] rule = "adult" -> "Adult content"
      [] rule = "link" -> "Link detected"
      [] rule = "flood" -> "Flooding"

\* moderateMessage(msg): what it evaluates, reports and calls, and the
\* sender's flood window when it returns
moderateMessage(c, u, m, fails) ==
    LET settings == getGroup(c)
        w == messageWindow[Key(c, u)]
        lookup == << Call("getChatMember", "lookup" \notin fails) >>
        rules == SelectSeq(IndexRuleOrder,
                           LAMBDA r : r # "flood" \/ FloodOn(settings))
        hit == FirstMatch(rules, IndexMatched(c, u, m))
        evaluated == IF hit = 0 THEN rules ELSE SubSeq(rules, 1, hit)
        \* the flood block pushes and prunes, and empties the window on a hit
        window == IF \E i \in 1..Len(evaluated) : evaluated[i] = "flood"
                  THEN IF hit = 0 THEN FloodRecord(w, settings) ELSE << >>
                  ELSE w
    IN
    IF isUserAdmin(u, "lookup" \notin fails)
    THEN Verdict("exempt", << >>, << >>, lookup, w)
    ELSE IF u \in globals.whitelist \/ u \in settings.whitelist
    THEN Verdict("exempt", << >>, << >>, lookup, w)
    ELSE IF u \in globals.blacklist \/ u \in settings.blacklist
    THEN Verdict("blacklist", << >>, << >>,
                 lookup \o KickAndCount("kick" \notin fails), w)
    ELSE IF hit = 0
    THEN Verdict("rules", evaluated, << >>, lookup, window)
    ELSE Verdict("rules", evaluated, << IndexReason(rules[hit]) >>,
                 lookup \o deleteAndAct(c, fails), window)

-----------------------------------------------------------------------------
(* index.js : bot.on('message') *)

CallFailures == {"delete", "kick", "send", "restrict", "lookup"}

\* parseInt(msg.text.trim()): {} for NaN, {n} for the integer n
ParsedAnswers == {{}} \cup {{n} : n \in {2, 10, 18, 5}}

\* A text as the sequence of its characters
DecDigits == << "0", "1", "2", "3", "4", "5", "6", "7", "8", "9" >>
HexDigits == DecDigits \o << "a", "b", "c", "d", "e", "f" >>
DigitsOf(radix) == IF radix = 16 THEN HexDigits ELSE DecDigits
IsDigit(ch, radix) == SeqHas(DigitsOf(radix), ch)
DigitValue(ch, radix) ==
    (CHOOSE i \in 1..Len(DigitsOf(radix)) : DigitsOf(radix)[i] = ch) - 1

RECURSIVE TrimStart(_)
TrimStart(text) ==
    IF text # << >> /\ Head(text) = " " THEN TrimStart(Tail(text)) ELSE text
RECURSIVE TrimEnd(_)
TrimEnd(text) ==
    IF text # << >> /\ text[Len(text)] = " "
    THEN TrimEnd(SubSeq(text, 1, Len(text) - 1)) ELSE text
\* String.prototype.trim
trim(text) == TrimEnd(TrimStart(text))

\* the longest prefix of digits, as a number; NaN when there is none
RECURSIVE ParseDigits(_, _, _, _)
ParseDigits(text, radix, acc, seen) ==
    IF text = << >> \/ ~IsDigit(Head(text), radix)
    THEN IF seen THEN {acc} ELSE {}
    ELSE ParseDigits(Tail(text), radix,
                     acc * radix + DigitValue(Head(text), radix), TRUE)

\* parseInt(text) without a radix: leading blanks and a sign are skipped, a
\* 0x prefix selects base 16, and whatever follows the digits is ignored
parseInt(text) ==
    LET t == TrimStart(text)
        signed == t # << >> /\ Head(t) \in {"+", "-"}
        body == IF signed THEN Tail(t) ELSE t
        hex == Len(body) >= 2 /\ body[1] = "0" /\ body[2] \in {"x", "X"}
        mag == IF hex THEN ParseDigits(SubSeq(body, 3, Len(body)), 16, 0, FALSE)
               ELSE ParseDigits(body, 10, 0, FALSE)
    IN IF signed /\ Head(t) = "-" THEN {0 - n : n \in mag} ELSE mag

Entry(answer, expiresAt, tries, welcomeMsgId) ==
    [answer |-> answer, expiresAt |-> expiresAt, tries |-> tries,
     welcomeMsgId |-> welcomeMsgId]

Without(f, k) == [x \in DOMAIN f \ {k} |-> f[x]]

CaptchaAnswerFourTries(c, u, parsed, fails) ==
    LET key == Key(c, u)
        stored == captchaStore[key]
        tries == stored.tries + 1
    IN
    IF now > stored.expiresAt
    THEN [gate |-> "expired", calls |-> << >>, left |-> 0,
          store |-> Without(captchaStore, key)]
    ELSE IF parsed = {stored.answer}
    THEN [gate |-> "solved",
          calls |-> IF "restrict" \in fails
                    THEN << Call("restrictChatMember:allow", FALSE) >>
                    ELSE << Call("restrictChatMember:allow", TRUE),
                            Call("sendMessage:passed", "send" \notin fails) >>,
          left |-> 0,
          store |-> Without(captchaStore, key)]
    ELSE IF tries > CaptchaMaxTries
    THEN [gate |-> "failed",
          calls |-> KickAndCount("kick" \notin fails),
          left |-> 0,
          store |-> Without(captchaStore, key)]
    ELSE [gate |-> "wrong",
          calls |-> << Call("sendMessage:wrong", "send" \notin fails) >>,
          left |-> CaptchaMaxTries - tries,
          store |-> [captchaStore EXCEPT ![key].tries = tries]]

\* The captcha branch of the handler (lines 337-362): the branch taken, the
\* calls made and the store when it returns
CaptchaAnswer(c, u, parsed, fails) ==
    LET key == Key(c, u)
        stored == captchaStore[key]
        tries == stored.tries + 1
    IN
    IF now > stored.expiresAt
    THEN [gate |-> "expired", calls |-> << >>, left |-> 0,
          store |-> Without(captchaStore, key)]
    ELSE IF parsed = {stored.answer}
    THEN [gate |-> "solved",
          calls |-> IF "restrict" \in fails
                    THEN << Call("restrictChatMember:allow", FALSE) >>
                    ELSE << Call("restrictChatMember:allow", TRUE),
                            Call("sendMessage:passed", "send" \notin fails) >>,
          left |-> 0,
          store |-> Without(captchaStore, key)]
    ELSE IF tries >= CaptchaMaxTries
    THEN [gate |-> "failed",
          calls |-> KickAndCount("kick" \notin fails),
          left |-> 0,
          store |-> Without(captchaStore, key)]
    ELSE [gate |-> "wrong",
          calls |-> << Call("sendMessage:wrong", "send" \notin fails) >>,
          left |-> CaptchaMaxTries - tries,
          store |-> [captchaStore EXCEPT ![key].tries = tries]]

GateHoldsUnexpired(c, u) ==
    /\ Key(c, u) \in DOMAIN captchaStore
    /\ now <= captchaStore[Key(c, u)].expiresAt
\* line 337: `if (captchaStore[key])`, an entry of any age
GateHolds(c, u) == Key(c, u) \in DOMAIN captchaStore

\* A message with msg.text in a group chat (lines 333-368)
IndexOnText(c, u, m, text, fails) ==
    /\ variant = "index"
    /\ LET key == Key(c, u) IN
       IF GateHolds(c, u)
       THEN LET r == CaptchaAnswer(c, u, parseInt(trim(text)), fails) IN
            /\ captchaStore' = r.store
            /\ last' = [NoEvent EXCEPT !.kind = "text", !.user = u, !.chat = c,
                          !.stage = "gate", !.gate = r.gate,
                          !.text = text, !.oracle = m.oracle, !.left = r.left,
                          !.triesBefore = captchaStore[key].tries,
                          !.matched = IndexMatched(c, u, m),
                          !.calls = r.calls,
                          !.before = messageWindow[key]]
            /\ UNCHANGED << groups, messageWindow >>
       ELSE LET r == moderateMessage(c, u, m, fails) IN
            /\ groups' = GroupsAfterGet(c)
            /\ messageWindow' = [messageWindow EXCEPT ![key] = r.window]
            /\ last' = [NoEvent EXCEPT !.kind = "text", !.user = u, !.chat = c,
                          !.stage = r.stage,
                          !.text = text, !.oracle = m.oracle,
                          !.matched = IndexMatched(c, u, m),
                          !.evaluated = r.evaluated, !.reasons = r.reasons,
                          !.calls = r.calls,
                          !.before = messageWindow[key]]
            /\ UNCHANGED captchaStore
    /\ UNCHANGED << inflight, issued, variant, now, memberStatus, globals, timers,
                    warnings, chatCfg, userDocs >>

\* A message without msg.text and without new members (a photo, a sticker,
\* a captioned file): neither branch of the handler is entered
IndexOnMedia(c, u) ==
    /\ variant = "index"
    /\ last' = [NoEvent EXCEPT !.kind = "media", !.user = u, !.chat = c,
                  !.before = messageWindow[Key(c, u)]]
    /\ UNCHANGED << inflight, issued, variant, now, memberStatus, groups, globals, messageWindow,
                    captchaStore, timers, warnings, chatCfg, userDocs >>

JoinWhitelistedGlobalOnly(c, u) == u \in globals.whitelist
\* line 295: the global or the group whitelist holds the new member
JoinWhitelisted(c, u) ==
    u \in globals.whitelist \/ u \in getGroup(c).whitelist

\* A service message with new_chat_members = [user] (lines 285-331); it
\* carries no msg.text
IndexOnJoin(c, u, isBot, a, b, fails) ==
    /\ variant = "index"
    /\ Cardinality({t \in timers : t.key = Key(c, u)}) < MaxTimers
    /\ LET settings == getGroup(c)
           key == Key(c, u)
           cap == generateCaptcha(a, b)
           ev == [NoEvent EXCEPT !.kind = "join", !.user = u, !.chat = c,
                    !.bot = isBot, !.before = messageWindow[key],
                    !.text = cap.question]
       IN
       /\ groups' = GroupsAfterGet(c)
       /\ IF isBot
          THEN /\ last' = [ev EXCEPT !.stage = "bot",
                             !.calls = KickAndCount("kick" \notin fails)]
               /\ UNCHANGED << captchaStore, timers >>
          ELSE IF JoinWhitelisted(c, u)
          THEN /\ last' = [ev EXCEPT !.stage = "whitelisted"]
               /\ UNCHANGED << captchaStore, timers >>
          ELSE IF settings.captcha
          THEN /\ captchaStore' =
                     (key :> Entry(cap.answer, now + CaptchaTtlSec, 0,
                                   IF "send" \in fails THEN 0 ELSE 1))
                     @@ captchaStore
               /\ timers' = timers \cup {[key |-> key, at |-> now + CaptchaTimerSec]}
               /\ last' = [ev EXCEPT !.stage = "challenged",
                             !.calls = << Call("restrictChatMember:deny",
                                               "restrict" \notin fails),
                                          Call("sendMessage:captcha",
                                               "send" \notin fails) >>]
          ELSE /\ last' = [ev EXCEPT !.stage = "open",
                             !.calls = << Call("restrictChatMember:allow",
                                               "restrict" \notin fails) >>]
               /\ UNCHANGED << captchaStore, timers >>
    /\ UNCHANGED << inflight, issued, variant, now, memberStatus, globals, messageWindow,
                    warnings, chatCfg, userDocs >>

\* The setTimeout callback of a join (lines 314-321), run at or after its time
IndexOnTimer(t) ==
    /\ variant = "index"
    /\ t \in timers
    /\ now >= t.at
    /\ timers' = timers \ {t}
    /\ LET ev == [NoEvent EXCEPT !.kind = "timer", !.user = t.key[2],
                    !.chat = t.key[1]] IN
       \E kickOk \in BOOLEAN :
         IF t.key \notin DOMAIN captchaStore
         THEN /\ kickOk
              /\ last' = [ev EXCEPT !.gate = "gone"]
              /\ UNCHANGED captchaStore
         ELSE IF now > captchaStore[t.key].expiresAt
         THEN /\ captchaStore' = Without(captchaStore, t.key)
              /\ last' = [ev EXCEPT !.gate = "expired",
                            !.calls = KickAndCount(kickOk)]
         ELSE /\ kickOk
              /\ last' = [ev EXCEPT !.gate = "early"]
              /\ UNCHANGED captchaStore
    /\ UNCHANGED << inflight, issued, variant, now, memberStatus, groups, globals, messageWindow,
                    warnings, chatCfg, userDocs >>

-----------------------------------------------------------------------------
(* index.js : the captcha handlers step by step

   A handler runs until its next await; the other handlers and timers run
   while it is suspended.  The actions above are the runs in which no other
   handler runs between the awaits of one. *)

\* a challenge: the pair and the deadline its join set
ChallengeId(k) == << k, captchaStore[k].expiresAt >>

Issued(id, op) == IF << id, op >> \in DOMAIN issued THEN issued[<< id, op >>] ELSE 0
Bump(id, op) == (<< id, op >> :> Issued(id, op) + 1) @@ issued
IssuedOps == {"allow", "passed", "kick", "wrong"}
RECURSIVE SumIssued(_, _)
SumIssued(id, ops) ==
    IF ops = {} THEN 0
    ELSE LET op == CHOOSE o \in ops : TRUE
         IN Issued(id, op) + SumIssued(id, ops \ {op})

Suspended(kind, k, at) == [kind |-> kind, key |-> k, id |-> ChallengeId(k), at |-> at]
RemoveAt(q, i) == SubSeq(q, 1, i - 1) \o SubSeq(q, i + 1, Len(q))

\* lines 337-361 up to the first await: the expiry test, parseInt, the
\* comparison, stored.tries++ and the request the branch starts with
AnswerBegin(c, u, text) ==
    /\ variant = "index"
    /\ GateHolds(c, u)
    /\ Len(inflight) < MaxInflight
    /\ SumIssued(ChallengeId(Key(c, u)), IssuedOps) < MaxIssued
    /\ LET k == Key(c, u)
           stored == captchaStore[k]
           id == ChallengeId(k)
           tries == stored.tries + 1
           ev == [NoEvent EXCEPT !.kind = "text", !.user = u, !.chat = c,
                    !.stage = "gate", !.text = text, !.triesBefore = stored.tries]
       IN
       IF now > stored.expiresAt
       THEN /\ captchaStore' = Without(captchaStore, k)
            /\ last' = [ev EXCEPT !.gate = "expired"]
            /\ UNCHANGED << inflight, issued >>
       ELSE IF parseInt(trim(text)) = {stored.answer}
       THEN /\ inflight' = Append(inflight, Suspended("solved", k, "restrict"))
            /\ issued' = Bump(id, "allow")
            /\ last' = [ev EXCEPT !.gate = "solved"]
            /\ UNCHANGED captchaStore
       ELSE IF tries >= CaptchaMaxTries
       THEN /\ captchaStore' = [captchaStore EXCEPT ![k].tries = tries]
            /\ inflight' = Append(inflight, Suspended("failed", k, "kick"))
            /\ issued' = Bump(id, "kick")
            /\ last' = [ev EXCEPT !.gate = "failed"]
       ELSE /\ captchaStore' = [captchaStore EXCEPT ![k].tries = tries]
            /\ issued' = Bump(id, "wrong")
            /\ last' = [ev EXCEPT !.gate = "wrong", !.left = CaptchaMaxTries - tries]
            /\ UNCHANGED inflight
    /\ UNCHANGED << variant, now, memberStatus, groups, globals, messageWindow,
                    timers, warnings, chatCfg, userDocs >>

\* lines 314-321 up to the first await
TimerBegin(t) ==
    /\ variant = "index"
    /\ t \in timers
    /\ now >= t.at
    /\ Len(inflight) < MaxInflight
    /\ timers' = timers \ {t}
    /\ LET ev == [NoEvent EXCEPT !.kind = "timer", !.user = t.key[2],
                    !.chat = t.key[1]] IN
       IF t.key \notin DOMAIN captchaStore
       THEN /\ last' = [ev EXCEPT !.gate = "gone"]
            /\ UNCHANGED << inflight, issued >>
       ELSE IF now > captchaStore[t.key].expiresAt
       THEN /\ inflight' = Append(inflight, Suspended("timer", t.key, "kick"))
            /\ issued' = Bump(ChallengeId(t.key), "kick")
            /\ last' = [ev EXCEPT !.gate = "expired"]
       ELSE /\ last' = [ev EXCEPT !.gate = "early"]
            /\ UNCHANGED << inflight, issued >>
    /\ UNCHANGED << variant, now, memberStatus, groups, globals, messageWindow,
                    captchaStore, warnings, chatCfg, userDocs >>

\* The awaited request of the i-th suspended handler settles (ok: resolved,
\* otherwise rejected) and the handler runs to its next await or to its end:
\*   solved: restrictChatMember, then sendMessage, then delete captchaStore[key]
\*   failed, timer: kickChatMember, then incStat, then delete captchaStore[key]
\* a rejection goes to the catch block and from there to the delete
GateResume(i, ok) ==
    /\ variant = "index"
    /\ i \in 1..Len(inflight)
    /\ inflight[i].kind \in {"solved", "failed", "timer"}
    /\ LET h == inflight[i]
           next == CASE h.at = "restrict" -> "send"
                     [] h.at = "kick" -> "incStat"
                     [] OTHER -> "end"
       IN
       /\ last' = [NoEvent EXCEPT !.kind = "resume", !.user = h.key[2],
                     !.chat = h.key[1], !.gate = h.kind]
       /\ IF ok /\ next # "end"
          THEN /\ inflight' = [inflight EXCEPT ![i].at = next]
               /\ issued' = IF next = "send" THEN Bump(h.id, "passed") ELSE issued
               /\ UNCHANGED captchaStore
          ELSE /\ inflight' = RemoveAt(inflight, i)
               /\ captchaStore' = Without(captchaStore, h.key)
               /\ UNCHANGED issued
    /\ UNCHANGED << variant, now, memberStatus, groups, globals, messageWindow,
                    timers, warnings, chatCfg, userDocs >>

-----------------------------------------------------------------------------
(* index.js : moderateMessage step by step around the oracle

   hfSpamCheck awaits fetchFn(url, {method, headers, body}) with no signal and
   no timer of its own: the handler goes on when the request settles. *)

FreeSlot == CHOOSE n \in 1..MaxInflight :
                /\ \A i \in 1..Len(inflight) : inflight[i].n # n
                /\ \A j \in 1..(n - 1) : \E i \in 1..Len(inflight) : inflight[i].n = j

\* lines 212-236 up to `await fetchFn(...)`: the lookups, the exemptions, the
\* blacklist and the username rule did not return, and there is a fetch
ReachesOracle(c, u, m) ==
    LET settings == getGroup(c) IN
    /\ ~isUserAdmin(u, TRUE)
    /\ u \notin globals.whitelist \cup settings.whitelist
    /\ u \notin globals.blacklist \cup settings.blacklist
    /\ ~isUsernameSpam(m.usernameSpam)
    /\ m.oracle # "absent"

OracleBegin(c, u, m) ==
    /\ variant = "index"
    /\ ~GateHolds(c, u)
    /\ ReachesOracle(c, u, m)
    /\ Len(inflight) < MaxInflight
    /\ groups' = GroupsAfterGet(c)
    /\ inflight' = Append(inflight, [kind |-> "moderate", key |-> Key(c, u),
                                     n |-> FreeSlot, at |-> "oracle", msg |-> m])
    /\ last' = [NoEvent EXCEPT !.kind = "text", !.user = u, !.chat = c,
                  !.stage = "oracle", !.oracle = m.oracle]
    /\ UNCHANGED << issued, variant, now, memberStatus, globals, messageWindow,
                    captchaStore, timers, warnings, chatCfg, userDocs >>

\* the service answers, or the request fails: the promise of line 151 settles
OracleSettles(i) ==
    /\ variant = "index"
    /\ i \in 1..Len(inflight)
    /\ inflight[i].kind = "moderate"
    /\ inflight[i].at = "oracle"
    /\ inflight' = [inflight EXCEPT ![i].at = "settled"]
    /\ last' = NoEvent
    /\ UNCHANGED << issued, variant, now, memberStatus, groups, globals,
                    messageWindow, captchaStore, timers, warnings, chatCfg,
                    userDocs >>

\* lines 152-278 after the await: the verdict of the oracle and the rules
\* after it
OracleResume(i, fails) ==
    /\ variant = "index"
    /\ i \in 1..Len(inflight)
    /\ inflight[i].kind = "moderate"
    /\ inflight[i].at = "settled"
    /\ LET h == inflight[i]
           c == h.key[1]
           u == h.key[2]
           r == moderateMessage(c, u, h.msg, fails)
       IN
       /\ messageWindow' = [messageWindow EXCEPT ![h.key] = r.window]
       /\ last' = [NoEvent EXCEPT !.kind = "resume", !.user = u, !.chat = c,
                     !.stage = r.stage, !.oracle = h.msg.oracle,
                     !.matched = IndexMatched(c, u, h.msg),
                     !.evaluated = r.evaluated, !.reasons = r.reasons,
                     !.calls = r.calls, !.before = messageWindow[h.key]]
    /\ inflight' = RemoveAt(inflight, i)
    /\ UNCHANGED << issued, variant, now, memberStatus, groups, globals,
                    captchaStore, timers, warnings, chatCfg, userDocs >>

-----------------------------------------------------------------------------
(* index.js : the flood block of moderateMessage step by step

   Lines 262-272 run without an await: push, prune, compare.  On a hit the
   handler awaits deleteAndAct (line 274) and empties the window after it
   (line 275). *)

\* a message no exemption, blacklist or earlier rule returns on
ReachesFlood(c, u) ==
    LET settings == getGroup(c) IN
    /\ ~GateHolds(c, u)
    /\ ~isUserAdmin(u, TRUE)
    /\ u \notin globals.whitelist \cup settings.whitelist
    /\ u \notin globals.blacklist \cup settings.blacklist
    /\ FloodOn(settings)

FloodBegin(c, u) ==
    /\ variant = "index"
    /\ ReachesFlood(c, u)
    /\ Len(inflight) < MaxInflight
    /\ Issued(Key(c, u), "recorded") < MaxRecorded
    /\ LET settings == getGroup(c)
           key == Key(c, u)
           w == FloodRecord(messageWindow[key], settings)
           ev == [NoEvent EXCEPT !.kind = "text", !.user = u, !.chat = c,
                    !.stage = "rules", !.before = messageWindow[key]]
       IN
       /\ groups' = GroupsAfterGet(c)
       /\ messageWindow' = [messageWindow EXCEPT ![key] = w]
       /\ IF isFlooding(w, settings)
          THEN /\ inflight' = Append(inflight,
                                [kind |-> "flood", key |-> key, n |-> 0,
                                 at |-> "deleteAndAct", window |-> w])
               /\ issued' = (<< key, "flood" >> :> Issued(key, "flood") + 1)
                            @@ Bump(key, "recorded")
               /\ last' = [ev EXCEPT !.reasons = << IndexReason("flood") >>]
          ELSE /\ issued' = Bump(key, "recorded")
               /\ last' = ev
               /\ UNCHANGED inflight
    /\ UNCHANGED << variant, now, memberStatus, globals, captchaStore, timers,
                    warnings, chatCfg, userDocs >>

\* deleteAndAct has returned: `messageWindow[chatId][userId] = []`
FloodResume(i) ==
    /\ variant = "index"
    /\ i \in 1..Len(inflight)
    /\ inflight[i].kind = "flood"
    /\ messageWindow' = [messageWindow EXCEPT ![inflight[i].key] = << >>]
    /\ inflight' = RemoveAt(inflight, i)
    /\ last' = [NoEvent EXCEPT !.kind = "resume", !.stage = "flood",
                  !.user = inflight[i].key[2], !.chat = inflight[i].key[1],
                  !.before = inflight[i].window]
    /\ UNCHANGED << issued, variant, now, memberStatus, groups, globals,
                    captchaStore, timers, warnings, chatCfg, userDocs >>

-----------------------------------------------------------------------------
(* index.js : getGroup step by step, in the handler of a text message

   getGroup awaits findOne and, when there is no document, awaits insertOne of
   the defaults under the chat's _id; the collection refuses a second document
   with the same _id, and the rejection leaves getGroup, moderateMessage and
   the handler through the catch of line 370. *)

\* line 97 has answered null: the chat has no document yet
GetGroupBegin(c, u) ==
    /\ variant = "index"
    /\ ~GateHolds(c, u)
    /\ c \notin DOMAIN groups
    /\ Len(inflight) < MaxInflight
    /\ inflight' = Append(inflight, [kind |-> "getGroup", key |-> Key(c, u),
                                     n |-> 0, at |-> "insertOne"])
    /\ last' = [NoEvent EXCEPT !.kind = "text", !.user = u, !.chat = c,
                  !.stage = "getGroup"]
    /\ UNCHANGED << issued, variant, now, memberStatus, groups, globals,
                    messageWindow, captchaStore, timers, warnings, chatCfg,
                    userDocs >>

\* line 109 is answered, and on success moderateMessage goes on with the
\* defaults
GetGroupInsert(i) ==
    /\ variant = "index"
    /\ i \in 1..Len(inflight)
    /\ inflight[i].kind = "getGroup"
    /\ LET h == inflight[i]
           c == h.key[1]
           u == h.key[2]
           r == moderateMessage(c, u, CleanMessage, {})
           ev == [NoEvent EXCEPT !.kind = "text", !.user = u, !.chat = c,
                    !.before = messageWindow[h.key]]
       IN
       IF c \in DOMAIN groups
       THEN /\ last' = [ev EXCEPT !.stage = "threw"]
            /\ UNCHANGED << groups, messageWindow >>
       ELSE /\ groups' = (c :> DefaultGroup) @@ groups
            /\ messageWindow' = [messageWindow EXCEPT ![h.key] = r.window]
            /\ last' = [ev EXCEPT !.stage = r.stage, !.evaluated = r.evaluated,
                          !.reasons = r.reasons, !.calls = r.calls]
    /\ inflight' = RemoveAt(inflight, i)
    /\ UNCHANGED << issued, variant, now, memberStatus, globals, captchaStore,
                    timers, warnings, chatCfg, userDocs >>

-----------------------------------------------------------------------------
(* index.js : admin commands *)

\* upsertGroup on a chat without a document inserts one holding only the
\* patch: captcha, autoBan, floodLimit and floodWindowSec are then undefined,
\* which every test of them in the handlers reads as false or 0
BareGroup ==
    [captcha |-> FALSE, autoBan |-> FALSE, floodLimit |-> 0, floodWindowSec |-> 0,
     welcome |-> "custom", whitelist |-> {}, blacklist |-> {}]

CommandAllowedFailOpen(caller, lookupOk) ==
    ~lookupOk \/ isUserAdmin(caller, lookupOk) \/ caller \in ADMIN_IDS
\* `if (!await isUserAdmin(chatId, msg.from.id) && !ADMIN_IDS.includes(...)) return;`
CommandAllowed(caller, lookupOk) ==
    isUserAdmin(caller, lookupOk) \/ caller \in ADMIN_IDS

CommandEvent(c, caller, lookupOk) ==
    [NoEvent EXCEPT !.kind = "command", !.user = caller, !.chat = c,
       !.stage = IF CommandAllowed(caller, lookupOk) THEN "done" ELSE "denied",
       !.calls = << Call("getChatMember", lookupOk) >>]

\* /setwelcome <text>: upsertGroup(chatId, {welcome}) without a getGroup
IndexSetWelcome(c, caller, lookupOk) ==
    /\ variant = "index"
    /\ last' = CommandEvent(c, caller, lookupOk)
    /\ groups' = IF ~CommandAllowed(caller, lookupOk) THEN groups
                 ELSE IF c \in DOMAIN groups
                 THEN [groups EXCEPT ![c].welcome = "custom"]
                 ELSE (c :> BareGroup) @@ groups
    /\ UNCHANGED << inflight, issued, variant, now, memberStatus, globals, messageWindow,
                    captchaStore, timers, warnings, chatCfg, userDocs >>

\* /whitelist and /blacklist (add|remove) <uid>
IndexListCommand(c, caller, list, op, uid, lookupOk) ==
    /\ variant = "index"
    /\ last' = CommandEvent(c, caller, lookupOk)
    /\ groups' =
         IF ~CommandAllowed(caller, lookupOk) THEN groups
         ELSE LET g == GroupsAfterGet(c)
                  old == IF list = "whitelist" THEN g[c].whitelist ELSE g[c].blacklist
                  new == IF op = "add" THEN old \cup {uid} ELSE old \ {uid}
              IN IF list = "whitelist"
                 THEN [g EXCEPT ![c].whitelist = new]
                 ELSE [g EXCEPT ![c].blacklist = new]
    /\ UNCHANGED << inflight, issued, variant, now, memberStatus, globals, messageWindow,
                    captchaStore, timers, warnings, chatCfg, userDocs >>

\* /ban <uid> and /unban <uid>
IndexBanCommand(c, caller, op, uid, lookupOk, ok) ==
    /\ variant = "index"
    /\ last' = [CommandEvent(c, caller, lookupOk) EXCEPT
                  !.gate = op,
                  !.calls = IF ~CommandAllowed(caller, lookupOk) THEN @
                            ELSE @ \o (IF op = "ban" THEN KickAndCount(ok)
                                       ELSE << Call("unbanChatMember", ok) >>)
                                   \o << Call("sendMessage", TRUE) >>]
    /\ UNCHANGED << inflight, issued, variant, now, memberStatus, groups, globals,
                    messageWindow, captchaStore, timers, warnings, chatCfg,
                    userDocs >>

-----------------------------------------------------------------------------
(* The environment *)

\* The clock moves on to a later instant
Advance(t) ==
    /\ t \in Instants
    /\ t > now
    /\ now' = t
    /\ last' = NoEvent
    /\ UNCHANGED << inflight, issued, variant, memberStatus, groups, globals, messageWindow,
                    captchaStore, timers, warnings, chatCfg, userDocs >>

\* The chat owner promotes or demotes a member
PlatformSetStatus(u, r) ==
    /\ memberStatus[u] # r
    /\ memberStatus' = [memberStatus EXCEPT ![u] = r]
    /\ last' = NoEvent
    /\ UNCHANGED << inflight, issued, variant, now, groups, globals, messageWindow,
                    captchaStore, timers, warnings, chatCfg, userDocs >>

-----------------------------------------------------------------------------
(* part_000 : GroupManagerBot *)

\* LANGUAGE_SCRIPTS: script name -> code point ranges
LANGUAGE_SCRIPTS ==
    [chinese |-> << << 19968, 40959 >>, << 13312, 19903 >>, << 131072, 173791 >> >>,
     arabic |-> << << 1536, 1791 >>, << 1872, 1919 >>, << 2208, 2303 >> >>,
     russian |-> << << 1024, 1279 >> >>,
     japanese |-> << << 12352, 12447 >>, << 12448, 12543 >>, << 19968, 40959 >> >>,
     korean |-> << << 44032, 55215 >>, << 4352, 4607 >> >>,
     hindi |-> << << 2304, 2431 >> >>]

\* LANGUAGE_SCRIPTS[lang] for a name the literal does not have: the lower-case
\* names every object inherits give a value that is truthy and has no ranges
PrototypeNames == {"constructor", "__proto__"}
HasScript(lang) == lang \in DOMAIN LANGUAGE_SCRIPTS \cup PrototypeNames

InScript(ch, lang) ==
    /\ lang \in DOMAIN LANGUAGE_SCRIPTS
    /\ \E i \in 1..Len(LANGUAGE_SCRIPTS[lang]) :
         /\ ch >= LANGUAGE_SCRIPTS[lang][i][1]
         /\ ch <= LANGUAGE_SCRIPTS[lang][i][2]

\* the inner loop of detectLanguages: one character against every banned script
RECURSIVE ScanLanguages(_, _, _)
ScanLanguages(detected, ch, langs) ==
    IF langs = << >> THEN detected
    ELSE ScanLanguages(
           IF InScript(ch, Head(langs)) /\ ~SeqHas(detected, Head(langs))
           THEN Append(detected, Head(langs)) ELSE detected,
           ch, Tail(langs))

RECURSIVE ScanText(_, _, _)
ScanText(detected, text, langs) ==
    IF text = << >> THEN detected
    ELSE ScanText(ScanLanguages(detected, Head(text), langs), Tail(text), langs)

\* detectLanguages(text, bannedLanguages); text is its sequence of code points
detectLanguages(text, bannedLanguages) == ScanText(<< >>, text, bannedLanguages)

\* `for (let [start, end] of LANGUAGE_SCRIPTS[lang].ranges)` over undefined
\* throws a TypeError, at the first character of the text
detectLanguagesThrows(text, bannedLanguages) ==
    /\ text # << >>
    /\ \E i \in 1..Len(bannedLanguages) : bannedLanguages[i] \in PrototypeNames

\* A text is known by its code points and by what the two other detectors of
\* part_000 find in it: containsLinks, and the lower-cased words it includes
GMWords == {"spam"}
GMTexts == { << 72, 105 >>, << 20013 >>, << 1046, 20013 >> }
GMMessages == [link : BOOLEAN, words : SUBSET GMWords, chars : GMTexts]

containsLinks(m) == m.link
containsBannedWords(m, bannedWords) ==
    \E i \in 1..Len(bannedWords) : bannedWords[i] \in m.words

\* isAdmin(ctx): ADMIN_IDS, else the platform role, false when the lookup throws
isAdminGM(u, lookupOk) ==
    \/ u \in GM_ADMIN_IDS
    \/ lookupOk /\ memberStatus[u] \in {"administrator", "creator"}

\* handleMessage lines 133-158: the order of its checks
GMRuleOrder == << "link", "word", "script" >>

GMMatched(c, m) ==
    {r \in {"link"} : containsLinks(m)}
    \cup {r \in {"word"} : Len(chatCfg[c].words) > 0
                           /\ containsBannedWords(m, chatCfg[c].words)}
    \cup {r \in {"script"} : Len(chatCfg[c].languages) > 0
                             /\ Len(detectLanguages(m.chars, chatCfg[c].languages)) > 0}

GMReason(rule) ==
    CASE rule = "link" -> "Link sharing is not allowed"
      [] rule = "word" -> "Banned words detected"
      [] rule = "script" -> "Banned languages detected"

GMFailures == {"delete", "reply", "ban", "banReply", "lookup"}

\* banUserAuto: ban, notice and reset share one try block
banUserAuto(count, fails) ==
    IF "ban" \in fails
    THEN [calls |-> << Call("banChatMember", FALSE) >>, stored |-> count]
    ELSE IF "banReply" \in fails
    THEN [calls |-> << Call("banChatMember", TRUE), Call("reply:banned", FALSE) >>,
          stored |-> count]
    ELSE [calls |-> << Call("banChatMember", TRUE), Call("reply:banned", TRUE) >>,
          stored |-> 0]

\* handleRuleViolation: delete (caught), addWarning, the warning notice (not
\* caught: a throw ends the handler), then banUserAuto at MAX_WARNINGS
handleRuleViolation(stored, fails) ==
    LET count == stored + 1
        del == << Call("deleteMessage", "delete" \notin fails) >>
        ban == banUserAuto(count, fails)
    IN
    IF "reply" \in fails
    THEN [count |-> count, stored |-> count,
          calls |-> del \o << Call("reply:warning", FALSE) >>]
    ELSE IF count >= MAX_WARNINGS
    THEN [count |-> count, stored |-> ban.stored,
          calls |-> del \o << Call("reply:warning", TRUE) >> \o ban.calls]
    ELSE [count |-> count, stored |-> count,
          calls |-> del \o << Call("reply:warning", TRUE) >>]

\* bot.on('text'): handleMessage(ctx)
GMOnText(c, u, m, fails) ==
    /\ variant = "gm"
    /\ warnings[Key(c, u)] < WarnCap
    /\ LET key == Key(c, u)
           lookup == IF u \in GM_ADMIN_IDS THEN << >>
                     ELSE << Call("getChatMember", "lookup" \notin fails) >>
           matched == GMMatched(c, m)
           hit == FirstMatch(GMRuleOrder, matched)
           ev == [NoEvent EXCEPT !.kind = "text", !.user = u, !.chat = c,
                    !.matched = matched, !.countBefore = warnings[key],
                    !.count = warnings[key]]
           v == handleRuleViolation(warnings[key], fails)
       IN
       IF isAdminGM(u, "lookup" \notin fails)
       THEN /\ last' = [ev EXCEPT !.stage = "exempt", !.calls = lookup]
            /\ UNCHANGED warnings
       ELSE IF hit = 0
       THEN /\ last' = [ev EXCEPT
                          !.stage = IF detectLanguagesThrows(m.chars, chatCfg[c].languages)
                                    THEN "threw" ELSE "rules",
                          !.evaluated = GMRuleOrder, !.calls = lookup]
            /\ UNCHANGED warnings
       ELSE /\ last' = [ev EXCEPT !.stage = "rules",
                          !.evaluated = SubSeq(GMRuleOrder, 1, hit),
                          !.reasons = << GMReason(GMRuleOrder[hit]) >>,
                          !.calls = lookup \o v.calls, !.count = v.count]
            /\ warnings' = [warnings EXCEPT ![key] = v.stored]
    /\ UNCHANGED << inflight, issued, variant, now, memberStatus, groups, globals, messageWindow,
                    captchaStore, timers, chatCfg, userDocs >>

\* String.prototype.toLowerCase on the names the commands are given
ToLowerCase(name) == IF name = "Chinese" THEN "chinese" ELSE name
MapLowerNone(args) == args
MapLower(args) == [i \in 1..Len(args) |-> ToLowerCase(args[i])]

\* [...new Set(list)]: the first occurrence of each element, in order
RECURSIVE UniqueInto(_, _)
UniqueInto(acc, q) ==
    IF q = << >> THEN acc
    ELSE UniqueInto(IF SeqHas(acc, Head(q)) THEN acc ELSE Append(acc, Head(q)),
                    Tail(q))

\* setBannedLanguages(chatId, languages): the list it stores
setBannedLanguages(languages) == SelectSeq(languages, HasScript)

LangEvent(c, caller, cmd, args, lookupOk, stage, reply) ==
    [NoEvent EXCEPT !.kind = "command", !.gate = cmd, !.user = caller, !.chat = c,
       !.stage = stage, !.text = args, !.before = chatCfg[c].languages,
       !.prior = Prior(last),
       !.calls = (IF caller \in GM_ADMIN_IDS THEN << >>
                  ELSE << Call("getChatMember", lookupOk) >>)
                 \o << Call(reply, TRUE) >>]

\* /addbannedlang lang1 lang2 ...
addBannedLanguages(c, caller, args, lookupOk) ==
    /\ variant = "gm"
    /\ IF ~isAdminGM(caller, lookupOk)
       THEN /\ last' = LangEvent(c, caller, "addlang", args, lookupOk, "denied",
                                 "reply:onlyAdmins")
            /\ UNCHANGED chatCfg
       ELSE IF args = << >>
       THEN /\ last' = LangEvent(c, caller, "addlang", args, lookupOk, "usage",
                                 "reply:usage")
            /\ UNCHANGED chatCfg
       ELSE LET currentLangs == chatCfg[c].languages
                validLangs == SelectSeq(MapLower(args), HasScript)
                updatedLangs == UniqueInto(<< >>, currentLangs \o validLangs)
            IN
            /\ chatCfg' = [chatCfg EXCEPT
                             ![c].languages = setBannedLanguages(updatedLangs)]
            /\ last' = LangEvent(c, caller, "addlang", args, lookupOk, "done",
                                 "reply:added")
    /\ UNCHANGED << inflight, issued, variant, now, memberStatus, groups, globals,
                    messageWindow, captchaStore, timers, warnings, userDocs >>

\* /removebannedlang lang1 lang2 ...
removeBannedLanguages(c, caller, args, lookupOk) ==
    /\ variant = "gm"
    /\ IF ~isAdminGM(caller, lookupOk)
       THEN /\ last' = LangEvent(c, caller, "removelang", args, lookupOk, "denied",
                                 "reply:onlyAdmins")
            /\ UNCHANGED chatCfg
       ELSE IF args = << >>
       THEN /\ last' = LangEvent(c, caller, "removelang", args, lookupOk, "usage",
                                 "reply:usage")
            /\ UNCHANGED chatCfg
       ELSE LET currentLangs == chatCfg[c].languages
                removeLangs == MapLower(args)
                Kept(lang) == ~SeqHas(removeLangs, lang)
                updatedLangs == SelectSeq(currentLangs, Kept)
            IN
            /\ chatCfg' = [chatCfg EXCEPT
                             ![c].languages = setBannedLanguages(updatedLangs)]
            /\ last' = LangEvent(c, caller, "removelang", args, lookupOk, "done",
                                 "reply:removed")
    /\ UNCHANGED << inflight, issued, variant, now, memberStatus, groups, globals,
                    messageWindow, captchaStore, timers, warnings, userDocs >>

\* detectLanguages applied to a text and a list, as handleMessage applies it
DetectLanguages(text, bannedLanguages) ==
    /\ variant = "gm"
    /\ last' = [NoEvent EXCEPT
                  !.kind = "detect", !.text = text, !.evaluated = bannedLanguages,
                  !.stage = IF detectLanguagesThrows(text, bannedLanguages)
                            THEN "threw" ELSE "returned",
                  !.reasons = IF detectLanguagesThrows(text, bannedLanguages)
                              THEN << >>
                              ELSE detectLanguages(text, bannedLanguages)]
    /\ UNCHANGED << inflight, issued, variant, now, memberStatus, groups, globals,
                    messageWindow, captchaStore, timers, warnings, chatCfg,
                    userDocs >>

-----------------------------------------------------------------------------
(* part_001 : the two link bots *)

LinkFailures == {"delete", "reply", "restrict", "kick", "lookup"}

\* first variant, lines 45-82: one try block around the whole handling; the
\* calls made, and the count user.save() stores (the old one if it is not
\* reached)
V1Handle(stored, fails) ==
    LET count == stored + 1 IN
    IF count < MuteThreshold
    THEN IF "delete" \in fails
         THEN [count |-> count, stored |-> stored,
               calls |-> << Call("deleteMessage", FALSE) >>]
         ELSE IF "reply" \in fails
         THEN [count |-> count, stored |-> stored,
               calls |-> << Call("deleteMessage", TRUE), Call("reply:warning", FALSE) >>]
         ELSE [count |-> count, stored |-> count,
               calls |-> << Call("deleteMessage", TRUE), Call("reply:warning", TRUE) >>]
    ELSE IF "restrict" \in fails
         THEN [count |-> count, stored |-> stored,
               calls |-> << Call("restrictChatMember:deny", FALSE) >>]
         ELSE IF "reply" \in fails
         THEN [count |-> count, stored |-> stored,
               calls |-> << Call("restrictChatMember:deny", TRUE),
                            Call("reply:muted", FALSE) >>]
         ELSE [count |-> count, stored |-> 0,
               calls |-> << Call("restrictChatMember:deny", TRUE),
                            Call("reply:muted", TRUE) >>]

\* second variant, lines 154-180
V2Handle(stored, fails) ==
    LET count == stored + 1 IN
    IF "delete" \in fails
    THEN [count |-> count, stored |-> stored,
          calls |-> << Call("deleteMessage", FALSE) >>]
    ELSE IF count < MuteThreshold
    THEN IF "reply" \in fails
         THEN [count |-> count, stored |-> stored,
               calls |-> << Call("deleteMessage", TRUE), Call("reply:warning", FALSE) >>]
         ELSE [count |-> count, stored |-> count,
               calls |-> << Call("deleteMessage", TRUE), Call("reply:warning", TRUE) >>]
    ELSE IF "kick" \in fails
         THEN [count |-> count, stored |-> stored,
               calls |-> << Call("deleteMessage", TRUE),
                            Call("kickChatMember", FALSE) >>]
         ELSE IF "reply" \in fails
         THEN [count |-> count, stored |-> stored,
               calls |-> << Call("deleteMessage", TRUE), Call("kickChatMember", TRUE),
                            Call("reply:kicked", FALSE) >>]
         ELSE [count |-> count, stored |-> 0,
               calls |-> << Call("deleteMessage", TRUE), Call("kickChatMember", TRUE),
                            Call("reply:kicked", TRUE) >>]

\* isAdmin(ctx, userId) of the second variant: false when the lookup throws
isAdminV2(u, lookupOk) ==
    lookupOk /\ memberStatus[u] \in {"administrator", "creator"}

\* bot.on("message") of the first variant; hasUrl: ctx.message.text && containsUrl
V1OnMessage(c, u, hasUrl, fails) ==
    /\ variant = "v1"
    /\ LET v == V1Handle(userDocs[u], fails)
           ev == [NoEvent EXCEPT !.kind = "text", !.user = u, !.chat = c,
                    !.stage = "rules", !.evaluated = << "link" >>,
                    !.countBefore = userDocs[u], !.count = userDocs[u]]
       IN
       IF hasUrl
       THEN /\ last' = [ev EXCEPT !.matched = {"link"}, !.reasons = << "link" >>,
                          !.calls = v.calls, !.count = v.count]
            /\ userDocs' = [userDocs EXCEPT ![u] = v.stored]
       ELSE /\ last' = ev
            /\ UNCHANGED userDocs
    /\ UNCHANGED << inflight, issued, variant, now, memberStatus, groups, globals, messageWindow,
                    captchaStore, timers, warnings, chatCfg >>

\* bot.on("message") of the second variant
V2OnMessage(c, u, hasUrl, fails) ==
    /\ variant = "v2"
    /\ LET v == V2Handle(userDocs[u], fails)
           lookup == << Call("getChatMember", "lookup" \notin fails) >>
           ev == [NoEvent EXCEPT !.kind = "text", !.user = u, !.chat = c,
                    !.stage = "rules", !.evaluated = << "link" >>,
                    !.countBefore = userDocs[u], !.count = userDocs[u]]
       IN
       IF ~hasUrl
       THEN /\ last' = ev
            /\ UNCHANGED userDocs
       ELSE IF isAdminV2(u, "lookup" \notin fails)
       THEN /\ last' = [ev EXCEPT !.stage = "exempt", !.evaluated = << >>,
                          !.matched = {"link"}, !.calls = lookup]
            /\ UNCHANGED userDocs
       ELSE /\ last' = [ev EXCEPT !.matched = {"link"}, !.reasons = << "link" >>,
                          !.calls = lookup \o v.calls, !.count = v.count]
            /\ userDocs' = [userDocs EXCEPT ![u] = v.stored]
    /\ UNCHANGED << inflight, issued, variant, now, memberStatus, groups, globals, messageWindow,
                    captchaStore, timers, warnings, chatCfg >>

\* The first variant step by step: `await User.findOne({ userId })` gives the
\* handler its copy of the document; the platform calls are awaited; then
\* `await user.save()` writes the copy's count.
V1Begin(c, u) ==
    /\ variant = "v1"
    /\ Len(inflight) < MaxInflight
    /\ Issued(u, "violation") < MaxIssued
    /\ inflight' = Append(inflight, [kind |-> "v1", key |-> Key(c, u), n |-> 0,
                                     at |-> "findOne", read |-> userDocs[u]])
    /\ issued' = Bump(u, "violation")
    /\ last' = [NoEvent EXCEPT !.kind = "text", !.user = u, !.chat = c,
                  !.stage = "rules", !.evaluated = << "link" >>,
                  !.matched = {"link"}, !.countBefore = userDocs[u],
                  !.count = userDocs[u]]
    /\ UNCHANGED << variant, now, memberStatus, groups, globals, messageWindow,
                    captchaStore, timers, warnings, chatCfg, userDocs >>

V1Save(i) ==
    /\ variant = "v1"
    /\ i \in 1..Len(inflight)
    /\ inflight[i].kind = "v1"
    /\ LET h == inflight[i]
           u == h.key[2]
           v == V1Handle(h.read, {})
       IN
       /\ userDocs' = [userDocs EXCEPT ![u] = v.stored]
       /\ last' = [NoEvent EXCEPT !.kind = "resume", !.user = u, !.chat = h.key[1],
                     !.stage = "rules", !.reasons = << "link" >>,
                     !.calls = v.calls, !.countBefore = h.read, !.count = v.count]
    /\ inflight' = RemoveAt(inflight, i)
    /\ UNCHANGED << issued, variant, now, memberStatus, groups, globals,
                    messageWindow, captchaStore, timers, warnings, chatCfg >>

-----------------------------------------------------------------------------
(* Specifications *)

\* part_000 lists as /addbannedwords and /addbannedlang leave them
NoLists == [words |-> << >>, languages |-> << >>]
SomeLists == [words |-> << "spam" >>, languages |-> << "chinese", "russian" >>]

\* The state after start-up: empty collections and maps
InitOf(vs, cfgs) ==
    /\ variant \in vs
    /\ now = 0
    /\ memberStatus = [u \in Users |-> "member"]
    /\ groups = << >>
    /\ globals = [whitelist |-> {}, blacklist |-> {}]
    /\ messageWindow = [k \in Keys |-> << >>]
    /\ captchaStore = << >>
    /\ timers = {}
    /\ warnings = [k \in Keys |-> 0]
    /\ chatCfg \in {[c \in Chats |-> cfg] : cfg \in cfgs}
    /\ userDocs = [u \in Users |-> 0]
    /\ inflight = << >>
    /\ issued = << >>
    /\ last = NoEvent

AtMostOne(S) == {{}} \cup {{x} : x \in S}

\* texts sent as answers: no number, the sum 1 + 1, another number, and the
\* sum followed by a letter
NoNumber == << "h", "i" >>
AnswerTexts == {NoNumber, << "2" >>, << "5" >>, << "2", "x" >>}

UrlMessage == [usernameSpam |-> FALSE, oracle |-> "ham", feats |-> {"url"}]
SpamUrlMessage == [usernameSpam |-> FALSE, oracle |-> "spam", feats |-> {"url"}]
GMPlain == [link |-> FALSE, words |-> {}, chars |-> << 72, 105 >>]
GMLink == [link |-> TRUE, words |-> {}, chars |-> << 72, 105 >>]

(* Spec: the four scripts under failing platform calls, one chat for the
   scripts that key their state by chat *)
Init == InitOf(Variants, {SomeLists})

IndexText ==
    \E u \in Users, m \in {CleanMessage, UrlMessage}, fails \in AtMostOne(CallFailures) :
      IndexOnText(1, u, m, NoNumber, fails)
IndexWelcome == \E ok \in BOOLEAN : IndexSetWelcome(1, 2, ok)
GMText ==
    \E u \in Users, m \in {GMPlain, GMLink}, fails \in AtMostOne(GMFailures) :
      GMOnText(1, u, m, fails)
V1Message ==
    \E c \in Chats, u \in Users, hasUrl \in BOOLEAN, fails \in AtMostOne(LinkFailures) :
      V1OnMessage(c, u, hasUrl, fails)
V2Message ==
    \E c \in Chats, u \in Users, hasUrl \in BOOLEAN, fails \in AtMostOne(LinkFailures) :
      V2OnMessage(c, u, hasUrl, fails)
SetStatus == \E r \in Roles : PlatformSetStatus(2, r)

Next ==
    \/ IndexText
    \/ IndexWelcome
    \/ GMText
    \/ V1Message
    \/ V2Message
    \/ SetStatus

Spec == Init /\ [][Next]_vars

(* SpecOrder: every combination of matching rules, no failing call *)
InitOrder == InitOf({"index", "gm"}, {NoLists, SomeLists})

OrderIndexText == \E m \in IndexMessages : IndexOnText(1, 1, m, NoNumber, {})
OrderGMText == \E m \in GMMessages : GMOnText(1, 1, m, {})
OrderWelcome == IndexSetWelcome(1, 2, TRUE)

NextOrder ==
    \/ OrderIndexText
    \/ OrderGMText
    \/ OrderWelcome

SpecOrder == InitOrder /\ [][NextOrder]_vars

(* SpecGate: joins, challenge answers, expiry and the group blacklist *)
InitGate == InitOf({"index"}, {NoLists})

GateInstants == {121, 126}

GateJoin == \E isBot \in BOOLEAN : IndexOnJoin(1, 1, isBot, 1, 1, {})
GateText ==
    \E m \in {CleanMessage, SpamUrlMessage}, text \in AnswerTexts,
       fails \in AtMostOne({"kick"}) :
      IndexOnText(1, 1, m, text, fails)
GateMedia == IndexOnMedia(1, 1)
GateTimer == \E t \in timers : IndexOnTimer(t)
GateBlacklist == \E op \in {"add", "remove"} : IndexListCommand(1, 2, "blacklist", op, 1, TRUE)
GateAdvance == \E t \in GateInstants : Advance(t)

NextGate ==
    \/ GateJoin
    \/ GateText
    \/ GateMedia
    \/ GateTimer
    \/ GateBlacklist
    \/ GateAdvance

SpecGate == InitGate /\ [][NextGate]_vars

(* SpecJoin: members and bots joining under changing whitelist and settings *)
InitJoin == InitOf({"index"}, {NoLists})

JoinMember == \E u \in Users, isBot \in BOOLEAN : IndexOnJoin(1, u, isBot, 1, 1, {})
JoinWhitelist ==
    \E op \in {"add", "remove"} : IndexListCommand(1, 2, "whitelist", op, 1, TRUE)
JoinWelcome == \E c \in Chats : IndexSetWelcome(c, 2, TRUE)
JoinOther == \E isBot \in BOOLEAN : IndexOnJoin(2, 1, isBot, 9, 9, {"restrict"})
JoinAnswer == \E text \in {<< "2" >>, << "5" >>} : IndexOnText(1, 1, CleanMessage, text, {})

NextJoin ==
    \/ JoinMember
    \/ JoinWhitelist
    \/ JoinWelcome
    \/ JoinOther
    \/ JoinAnswer

SpecJoin == InitJoin /\ [][NextJoin]_vars

(* SpecRejoin: a member who joins again while the timer of an earlier join
   is pending *)
InitRejoin == InitOf({"index"}, {NoLists})

RejoinInstants == {1, 121, 126}

RejoinJoin == \E a \in CaptchaOperands : IndexOnJoin(1, 1, FALSE, a, 1, {})
RejoinText ==
    \E text \in {<< "2" >>, << "5" >>} : IndexOnText(1, 1, SpamUrlMessage, text, {})
RejoinTimer == \E t \in timers : IndexOnTimer(t)
RejoinAdvance == \E t \in RejoinInstants : Advance(t)

NextRejoin ==
    \/ RejoinJoin
    \/ RejoinText
    \/ RejoinTimer
    \/ RejoinAdvance

SpecRejoin == InitRejoin /\ [][NextRejoin]_vars

(* SpecAsync: answers and timers whose handlers overlap *)
InitAsync == InitOf({"index"}, {NoLists})

AsyncInstants == {126}

AsyncJoin == IndexOnJoin(1, 1, FALSE, 1, 1, {})
AsyncAnswer == \E text \in {<< "2" >>, << "5" >>} : AnswerBegin(1, 1, text)
AsyncTimer == \E t \in timers : TimerBegin(t)
AsyncResume == \E i \in 1..MaxInflight, ok \in BOOLEAN : GateResume(i, ok)
AsyncAdvance == \E t \in AsyncInstants : Advance(t)

NextAsync ==
    \/ AsyncJoin
    \/ AsyncAnswer
    \/ AsyncTimer
    \/ AsyncResume
    \/ AsyncAdvance

SpecAsync == InitAsync /\ [][NextAsync]_vars

(* SpecOracle: messages of one sender whose handlers wait for the oracle.
   The event loop runs a handler whose awaited promise has settled, hence the
   fairness of the resumption; nothing obliges the service to answer. *)
InitOracle == InitOf({"index"}, {NoLists})

OracleInstants == {1, 7, 8}

OracleText == \E m \in {CleanMessage, UrlMessage, SpamUrlMessage} : OracleBegin(1, 1, m)
OracleAnswer == \E i \in 1..MaxInflight : OracleSettles(i)
OracleContinue ==
    \E i \in 1..MaxInflight, fails \in AtMostOne({"delete"}) : OracleResume(i, fails)
OracleAdvance == \E t \in OracleInstants : Advance(t)

NextOracle ==
    \/ OracleText
    \/ OracleAnswer
    \/ OracleContinue
    \/ OracleAdvance

SpecOracle == InitOracle /\ [][NextOracle]_vars /\ WF_vars(OracleContinue)

(* SpecDetect: the script detector on short texts and short lists *)
MaxText == 2
MaxLangs == 2
\* H, a Cyrillic letter, a hiragana, a CJK ideograph
DetectChars == {72, 1046, 12354, 20013}
DetectNames == {"chinese", "japanese", "russian", "klingon", "constructor"}
SeqsUpTo(S, n) == UNION {[1..k -> S] : k \in 0..n}

InitDetect == InitOf({"gm"}, {NoLists})

DetectText ==
    \E text \in SeqsUpTo(DetectChars, MaxText),
       langs \in SeqsUpTo(DetectNames, MaxLangs) : DetectLanguages(text, langs)

NextDetect == DetectText

SpecDetect == InitDetect /\ [][NextDetect]_vars

(* SpecLang: the banned-script list of one chat under the two commands *)
InitLang == InitOf({"gm"}, {NoLists})

LangArgs == {<< >>, << "chinese" >>, << "Chinese" >>, << "japanese" >>,
             << "klingon" >>}

LangAdd == \E args \in LangArgs, ok \in BOOLEAN : addBannedLanguages(1, 1, args, ok)
LangRemove == \E args \in LangArgs, ok \in BOOLEAN : removeBannedLanguages(1, 1, args, ok)
LangStatus == \E r \in {"member", "administrator"} : PlatformSetStatus(1, r)

NextLang ==
    \/ LangAdd
    \/ LangRemove
    \/ LangStatus

SpecLang == InitLang /\ [][NextLang]_vars

(* SpecAdmin: the commands of index.js and of part_000 from either user, whose
   role the platform changes *)
InitAdmin == InitOf({"index", "gm"}, {SomeLists})

AdminWelcome == \E caller \in Users, ok \in BOOLEAN : IndexSetWelcome(1, caller, ok)
AdminList ==
    \E caller \in Users, list \in {"whitelist", "blacklist"},
       op \in {"add", "remove"}, ok \in BOOLEAN :
      IndexListCommand(1, caller, list, op, 1, ok)
AdminBan ==
    \E caller \in Users, op \in {"ban", "unban"}, lookupOk \in BOOLEAN, ok \in BOOLEAN :
      IndexBanCommand(1, caller, op, 1, lookupOk, ok)
AdminAddLang ==
    \E caller \in Users, ok \in BOOLEAN :
      addBannedLanguages(1, caller, << "japanese" >>, ok)
AdminRemoveLang ==
    \E caller \in Users, ok \in BOOLEAN :
      removeBannedLanguages(1, caller, << "chinese" >>, ok)
AdminStatus == \E r \in {"member", "administrator"} : PlatformSetStatus(1, r)

NextAdmin ==
    \/ AdminWelcome
    \/ AdminList
    \/ AdminBan
    \/ AdminAddLang
    \/ AdminRemoveLang
    \/ AdminStatus

SpecAdmin == InitAdmin /\ [][NextAdmin]_vars

(* SpecPrecedence: a member with a live challenge who is then promoted,
   whitelisted or blacklisted, and writes *)
InitPrecedence == InitOf({"index"}, {NoLists})

PrecedenceJoin == IndexOnJoin(1, 1, FALSE, 1, 1, {})
PrecedenceText ==
    \E text \in {<< "2" >>, << "5" >>} : IndexOnText(1, 1, CleanMessage, text, {})
PrecedenceList ==
    \E list \in {"whitelist", "blacklist"}, op \in {"add", "remove"} :
      IndexListCommand(1, 2, list, op, 1, TRUE)
PrecedenceStatus == \E r \in {"member", "administrator"} : PlatformSetStatus(1, r)

NextPrecedence ==
    \/ PrecedenceJoin
    \/ PrecedenceText
    \/ PrecedenceList
    \/ PrecedenceStatus

SpecPrecedence == InitPrecedence /\ [][NextPrecedence]_vars

(* SpecChallenge: joins of one member with either operand small or large and
   either call failing, the answers and the timer *)
InitChallenge == InitOf({"index"}, {NoLists})

ChallengeInstants == {1, 126}

ChallengeJoin ==
    \E a \in CaptchaOperands, b \in CaptchaOperands,
       fails \in AtMostOne({"restrict", "send"}) :
      IndexOnJoin(1, 1, FALSE, a, b, fails)
ChallengeText ==
    \E text \in {<< "2" >>, << "5" >>} : IndexOnText(1, 1, CleanMessage, text, {})
ChallengeTimer == \E t \in timers : IndexOnTimer(t)
ChallengeAdvance == \E t \in ChallengeInstants : Advance(t)

NextChallenge ==
    \/ ChallengeJoin
    \/ ChallengeText
    \/ ChallengeTimer
    \/ ChallengeAdvance

SpecChallenge == InitChallenge /\ [][NextChallenge]_vars

(* SpecFloodAsync: one sender whose flood handlers overlap *)
InitFloodAsync == InitOf({"index"}, {NoLists})

FloodAsyncInstants == {1, 8}

FloodAsyncText == FloodBegin(1, 1)
FloodAsyncResume == \E i \in 1..MaxInflight : FloodResume(i)
FloodAsyncAdvance == \E t \in FloodAsyncInstants : Advance(t)

NextFloodAsync ==
    \/ FloodAsyncText
    \/ FloodAsyncResume
    \/ FloodAsyncAdvance

SpecFloodAsync == InitFloodAsync /\ [][NextFloodAsync]_vars

(* SpecRace: link messages of the first variant whose handlers overlap *)
InitRace == InitOf({"v1"}, {NoLists})

RaceMessage == \E u \in Users : V1Begin(1, u)
RaceSave == \E i \in 1..MaxInflight : V1Save(i)

NextRace ==
    \/ RaceMessage
    \/ RaceSave

SpecRace == InitRace /\ [][NextRace]_vars

(* SpecFirst: the first messages of two chats *)
InitFirst == InitOf({"index"}, {NoLists})

FirstText == \E c \in Chats, u \in Users : GetGroupBegin(c, u)
FirstInsert == \E i \in 1..MaxInflight : GetGroupInsert(i)
FirstLater == \E c \in Chats : IndexOnText(c, 1, CleanMessage, NoNumber, {})

NextFirst ==
    \/ FirstText
    \/ FirstInsert
    \/ FirstLater

SpecFirst == InitFirst /\ [][NextFirst]_vars

(* SpecFlood: one sender under the default settings, around the window's edge *)
InitFlood == InitOf({"index"}, {NoLists})

FloodInstants == {1, 7, 8}

FloodText == \E m \in {CleanMessage, UrlMessage} : IndexOnText(1, 1, m, NoNumber, {})
FloodAdvance == \E t \in FloodInstants : Advance(t)

NextFlood ==
    \/ FloodText
    \/ FloodAdvance

SpecFlood == InitFlood /\ [][NextFlood]_vars

-----------------------------------------------------------------------------
(* Properties *)

\* the handler just run determined a violation
Violation == last.kind = "text" /\ last.reasons # << >>

\* the sender's warning count as stored once the handler has returned
StoredCount ==
    IF variant = "gm" THEN warnings[Key(last.chat, last.user)]
    ELSE userDocs[last.user]
Threshold == IF variant = "gm" THEN MAX_WARNINGS ELSE MuteThreshold

C1_Reason(rule) ==
    CASE rule = "username" -> "Suspicious username"
      [] rule = "oracle" -> "AI (HuggingFace) Spam Detected"
      [] rule = "script" -> IF variant = "index" THEN "Foreign language spam"
                            ELSE "Banned languages detected"
      [] rule = "adult" -> "Adult content"
      [] rule = "link" -> IF variant = "index" THEN "Link detected"
                          ELSE "Link sharing is not allowed"
      [] rule = "word" -> "Banned words detected"
      [] rule = "flood" -> "Flooding"

\* a message that reached the rules and matches several: one report, for the
\* earliest matching rule of `order`; one enforcement; no later rule evaluated
C1_FirstOf(order) ==
    (last.kind = "text" /\ last.stage = "rules" /\ Cardinality(last.matched) > 1) =>
      \E i \in 1..Len(order) :
        /\ order[i] \in last.matched
        /\ \A j \in 1..(i - 1) : order[j] \notin last.matched
        /\ last.reasons = << C1_Reason(order[i]) >>
        /\ CountOf(last.calls, "deleteMessage") = 1
        /\ CountOf(last.calls, "kickChatMember")
             + CountOf(last.calls, "banChatMember") <= 1
        /\ variant = "gm" => last.count = last.countBefore + 1
        /\ \A j \in (i + 1)..Len(order) : ~SeqHas(last.evaluated, order[j])

ExemptSender ==
    \/ memberStatus[last.user] \in {"administrator", "creator"}
    \/ /\ variant = "index"
       /\ last.user \in globals.whitelist \cup getGroup(last.chat).whitelist

\* C2: a text message of an administrator, creator or whitelisted sender
\* leaves no trace: nothing deleted, no warning recorded, no ban, kick or mute
\* issued, and the sender's flood window as it was (index.js and the first
\* link bot).
C2_ExemptUntouched ==
    (last.kind = "text" /\ variant \in {"index", "v1"} /\ ExemptSender) =>
      /\ last.reasons = << >>
      /\ last.evaluated = << >> \/ last.matched = {}
      /\ ~Made(last.calls, "deleteMessage")
      /\ ~Made(last.calls, "kickChatMember")
      /\ ~Made(last.calls, "banChatMember")
      /\ ~Made(last.calls, "restrictChatMember:deny")
      /\ last.count = last.countBefore
      /\ StoredCount = last.countBefore
      /\ messageWindow[Key(last.chat, last.user)] = last.before

\* C3: a text message of a blacklisted sender who is neither administrator
\* nor whitelisted gets a ban request at once; no rule is evaluated, no notice
\* is sent and the flood window is as it was.
C3_BlacklistBan ==
    (/\ last.kind = "text"
     /\ last.user \in globals.blacklist \cup getGroup(last.chat).blacklist
     /\ ~ExemptSender) =>
      /\ last.stage = "blacklist"
      /\ Made(last.calls, "kickChatMember")
      /\ last.evaluated = << >>
      /\ \A i \in 1..Len(last.calls) :
           last.calls[i].op \in {"getChatMember", "kickChatMember", "incStat"}
      /\ messageWindow[Key(last.chat, last.user)] = last.before

\* C4: a text message of a user whose (chat,user) key is in the captcha store
\* is handled by the captcha branch alone, whatever the answer and the entry's
\* age: no rule evaluated, nothing reported, no moderation call, the flood
\* windows and the groups collection as they were.
C4_GateOnly ==
    [][(/\ last'.kind = "text"
        /\ Key(last'.chat, last'.user) \in DOMAIN captchaStore) =>
         /\ last'.stage = "gate"
         /\ last'.evaluated = << >>
         /\ last'.reasons = << >>
         /\ ~Made(last'.calls, "getChatMember")
         /\ ~Made(last'.calls, "deleteMessage")
         /\ messageWindow' = messageWindow
         /\ groups' = groups
         /\ warnings' = warnings]_vars

C4_Witness ==
    /\ last.kind = "text"
    /\ last.stage = "gate"
    /\ last.gate = "expired"
    /\ {"oracle", "link"} \subseteq last.matched

\* flood handling of a message no earlier rule fires on, where `live` is the
\* set of earlier timestamps the window counts
C5_FloodOn(live) ==
    LET key == Key(last.chat, last.user)
        L == groups[last.chat].floodLimit
    IN
    (/\ last.kind = "text"
     /\ last.stage = "rules"
     /\ last.matched \cap {"username", "oracle", "script", "adult", "link"} = {}) =>
      IF Cardinality(live) >= L
      THEN /\ last.reasons = << "Flooding" >>
           /\ CountOf(last.calls, "deleteMessage") = 1
           /\ messageWindow[key] = << >>
      ELSE /\ last.reasons = << >>
           /\ last.calls = << Call("getChatMember", TRUE) >>
           /\ messageWindow[key] # << >>

C6_CountFollowsViolations ==
    (Violation /\ variant \in {"gm", "v2"}) =>
      /\ last.countBefore < Threshold
      /\ last.count = last.countBefore + 1
      /\ StoredCount = IF last.count = Threshold THEN 0 ELSE last.count

\* C7: no stored count exceeds the threshold; a violation whose count reached
\* the threshold leaves 0; one below it sends the warning notice and issues no
\* ban or mute (GroupManagerBot and the first link bot).
C7_CountBounded ==
    /\ \A k \in Keys : warnings[k] <= MAX_WARNINGS
    /\ \A u \in Users : userDocs[u] <= MuteThreshold
    /\ (Violation /\ variant \in {"gm", "v1"}) =>
         IF last.count >= Threshold
         THEN StoredCount = 0
         ELSE /\ Made(last.calls, "reply:warning")
              /\ ~Made(last.calls, "banChatMember")
              /\ ~Made(last.calls, "restrictChatMember:deny")

\* the calls made after the first call named op
AfterCall(calls, op) ==
    LET i == CHOOSE i \in 1..Len(calls) :
                 /\ calls[i].op = op
                 /\ \A j \in 1..(i - 1) : calls[j].op # op
    IN SubSeq(calls, i + 1, Len(calls))

\* C8: every violation issues a delete request, the escalating one too, and
\* the handling goes on after a failed delete (index.js, GroupManagerBot and
\* the first link bot).
C8_DeleteAlways ==
    (Violation /\ variant \in {"index", "gm", "v1"}) =>
      /\ Made(last.calls, "deleteMessage")
      /\ AfterCall(last.calls, "deleteMessage") # << >>

\* C9: a violation adds exactly one to the sender's stored count (which the
\* escalation may then reset), whichever platform call fails.
C9_CountIncremented ==
    (Violation /\ variant \in {"gm", "v1", "v2"}) =>
      /\ last.count = last.countBefore + 1
      /\ \/ StoredCount = last.count
         \/ last.count >= Threshold /\ StoredCount = 0

\* C10: a violation that brings the count to the threshold issues the ban
\* request, and a granted ban resets the counter, whether or not a notice
\* could be sent; with autoBan set, index.js issues the kick request whatever
\* became of the delete and the notice.
C10_NoticeFailureHarmless ==
    /\ (Violation /\ variant = "gm" /\ last.count >= MAX_WARNINGS) =>
         /\ Made(last.calls, "banChatMember")
         /\ MadeOk(last.calls, "banChatMember") => StoredCount = 0
    /\ (Violation /\ variant = "index" /\ getGroup(last.chat).autoBan) =>
         Made(last.calls, "kickChatMember")

\* a text that is an integer literal: an optional sign and decimal digits
IsIntegerText(text) ==
    LET t == trim(text)
        body == IF t # << >> /\ Head(t) \in {"+", "-"} THEN Tail(t) ELSE t
    IN /\ body # << >>
       /\ \A i \in 1..Len(body) : IsDigit(body[i], 10)

\* a text message of the pair k handled in this step while k's entry was
\* within its time
AnswerInTime(k) ==
    /\ last'.kind = "text"
    /\ Key(last'.chat, last'.user) = k
    /\ k \in DOMAIN captchaStore
    /\ now <= captchaStore[k].expiresAt

C13_MalformedIsWrong ==
    [][\A k \in Keys :
         (AnswerInTime(k) /\ ~IsIntegerText(last'.text)) =>
           /\ last'.gate \in {"wrong", "failed"}
           /\ ~Made(last'.calls, "restrictChatMember:allow")
           /\ \/ /\ k \in DOMAIN captchaStore'
                 /\ captchaStore'[k].tries = captchaStore[k].tries + 1
              \/ /\ k \notin DOMAIN captchaStore'
                 /\ Made(last'.calls, "kickChatMember")]_vars

\* C14: an entry leaves the store only in a step that requests the user's
\* permissions back or the user's kick.
C14_RemovedMeansSettled ==
    [][\A k \in Keys :
         (k \in DOMAIN captchaStore /\ k \notin DOMAIN captchaStore') =>
           \/ Made(last'.calls, "restrictChatMember:allow")
           \/ Made(last'.calls, "kickChatMember")]_vars

\* C16: a timer acts only on the challenge it was set for: the callback of a
\* timer set by an earlier join requests no kick and leaves the store as it is.
C16_TimerOwnChallenge ==
    [][\A t \in timers :
         (/\ last'.kind = "timer"
          /\ t \notin timers'
          /\ t.key \in DOMAIN captchaStore
          /\ t.at # captchaStore[t.key].expiresAt + (CaptchaTimerSec - CaptchaTtlSec)) =>
           /\ ~Made(last'.calls, "kickChatMember")
           /\ captchaStore' = captchaStore]_vars

\* C17: a join of a bot requests a kick, a join in a chat without captcha
\* requests full permissions, and these and the join of a whitelisted member
\* leave the store as it is; an entry enters the store only by the join of a
\* member who is no bot and not whitelisted, in a chat with captcha on.
C17_JoinEntries ==
    [][/\ last'.kind = "join" =>
            LET k == Key(last'.chat, last'.user)
                g == getGroup(last'.chat)
            IN
            IF last'.bot
            THEN captchaStore' = captchaStore /\ Made(last'.calls, "kickChatMember")
            ELSE IF last'.user \in globals.whitelist \cup g.whitelist
            THEN captchaStore' = captchaStore
            ELSE IF ~g.captcha
            THEN /\ captchaStore' = captchaStore
                 /\ Made(last'.calls, "restrictChatMember:allow")
            ELSE /\ k \in DOMAIN captchaStore'
                 /\ captchaStore'[k].tries = 0
                 /\ captchaStore'[k].expiresAt = now + 120
                 /\ \A j \in DOMAIN captchaStore' \ {k} :
                      j \in DOMAIN captchaStore /\ captchaStore'[j] = captchaStore[j]
       /\ \A k \in Keys :
            (k \notin DOMAIN captchaStore /\ k \in DOMAIN captchaStore') =>
              /\ last'.kind = "join"
              /\ k = Key(last'.chat, last'.user)
              /\ ~last'.bot
              /\ last'.user \notin globals.whitelist \cup getGroup(last'.chat).whitelist
              /\ getGroup(last'.chat).captcha]_vars

C17_Witness ==
    /\ last.kind = "join"
    /\ ~last.bot
    /\ last.user \in groups[last.chat].whitelist
    /\ Key(last.chat, last.user) \notin DOMAIN captchaStore
    /\ Key(last.chat, 2) \in DOMAIN captchaStore

\* C20: a group message of a sender without an entry in the captcha store
\* goes through moderateMessage, be it a text or a captioned media message.
C20_EveryMessageModerated ==
    /\ (last.kind = "text" /\ last.stage # "gate") =>
         last.stage \in {"exempt", "blacklist", "rules"}
    /\ (last.kind = "media" /\ Key(last.chat, last.user) \notin DOMAIN captchaStore) =>
         last.stage \in {"exempt", "blacklist", "rules"}

\* C18: when the oracle call throws, answers in another shape or cannot be
\* made, the oracle step raises nothing and the checks after it decide as they
\* do after a not-spam answer: the first of banned script, adult content, link
\* and flood that matches is reported, and none is reported when none matches.
C18_OracleFailureIsNoVerdict ==
    (/\ variant = "index"
     /\ last.kind = "text"
     /\ last.stage = "rules"
     /\ last.oracle \in {"error", "garbled", "absent"}) =>
      LET rest == << "script", "adult", "link", "flood" >> IN
      /\ "oracle" \notin last.matched
      /\ last.reasons # << "AI (HuggingFace) Spam Detected" >>
      /\ "username" \notin last.matched =>
           /\ SeqHas(last.evaluated, "oracle")
           /\ IF \A i \in 1..4 : rest[i] \notin last.matched
              THEN /\ last.reasons = << >>
                   /\ \A i \in 1..3 : SeqHas(last.evaluated, rest[i])
                   /\ ~Made(last.calls, "deleteMessage")
              ELSE \E i \in 1..4 :
                     /\ rest[i] \in last.matched
                     /\ \A j \in 1..(i - 1) : rest[j] \notin last.matched
                     /\ last.reasons = << C1_Reason(rest[i]) >>
                     /\ SeqHas(last.evaluated, rest[i])

C18_Witness ==
    /\ variant = "index"
    /\ last.stage = "rules"
    /\ last.oracle = "error"
    /\ last.matched = {"link", "flood"}
    /\ last.reasons = << "Link detected" >>

\* the challenges a request was issued for
Challenges == {x[1] : x \in DOMAIN issued}

\* C11: a challenge for which a correct answer was accepted is resolved once:
\* one request restoring the permissions, at most one success notice, and no
\* kick request, however the handlers overlap.
C11_ResolvedOnce ==
    \A id \in Challenges :
      Issued(id, "allow") >= 1 =>
        /\ Issued(id, "allow") = 1
        /\ Issued(id, "passed") <= 1
        /\ Issued(id, "kick") = 0

\* C15: at most one kick request is issued per challenge, by the answer
\* handlers and the timer together, however they overlap.
C15_OneKick ==
    \A id \in Challenges : Issued(id, "kick") <= 1

\* the handler in slot n is suspended on the request to the oracle
OracleWaiting(n) ==
    \E i \in 1..Len(inflight) :
      /\ inflight[i].kind = "moderate"
      /\ inflight[i].n = n
      /\ inflight[i].at = "oracle"

\* C19: no handler waits for the oracle forever: a handler suspended on the
\* request eventually goes on, whether or not the service answers.
C19_NoHandlerWaitsForever ==
    \A n \in 1..MaxInflight : OracleWaiting(n) ~> ~OracleWaiting(n)

\* the code points of a text that lie in a range of the script
InRanges(text, lang) ==
    /\ lang \in DOMAIN LANGUAGE_SCRIPTS
    /\ \E i \in 1..Len(text), j \in 1..Len(LANGUAGE_SCRIPTS[lang]) :
         /\ text[i] >= LANGUAGE_SCRIPTS[lang][j][1]
         /\ text[i] <= LANGUAGE_SCRIPTS[lang][j][2]

\* C21: for every text and every banned list the detector returns exactly the
\* listed scripts with a code point of the text in their ranges, each once.
C21_DetectsExactly ==
    last.kind = "detect" =>
      /\ last.stage = "returned"
      /\ {last.reasons[i] : i \in 1..Len(last.reasons)}
           = {last.evaluated[i] : i \in 1..Len(last.evaluated)}
               \cap {lang \in DOMAIN LANGUAGE_SCRIPTS : InRanges(last.text, lang)}
      /\ \A i, j \in 1..Len(last.reasons) :
           last.reasons[i] = last.reasons[j] => i = j

\* a completed /removebannedlang of the one valid name that the command handled
\* just before it, a completed /addbannedlang in the same chat, was given
RoundTrip ==
    /\ last.kind = "command" /\ last.gate = "removelang" /\ last.stage = "done"
    /\ last.prior.gate = "addlang" /\ last.prior.stage = "done"
    /\ last.prior.chat = last.chat
    /\ Len(last.text) = 1 /\ Len(last.prior.text) = 1
    /\ ToLowerCase(last.text[1]) = ToLowerCase(last.prior.text[1])
    /\ HasScript(ToLowerCase(last.text[1]))
RoundTripName == ToLowerCase(last.text[1])

\* C22 as stated: after any such round trip the stored list is the one before
\* the add.
C22_RoundTrip ==
    RoundTrip => chatCfg[last.chat].languages = last.prior.before

\* C22: after adding a script that was not banned and removing it again, the
\* stored list is the one before the add (a script that was banned before the
\* add is not banned after the remove).
C22_RoundTripOfNew ==
    RoundTrip =>
      IF SeqHas(last.prior.before, RoundTripName)
      THEN ~SeqHas(chatCfg[last.chat].languages, RoundTripName)
      ELSE chatCfg[last.chat].languages = last.prior.before
C22_Witness ==
    /\ RoundTrip
    /\ ~SeqHas(last.prior.before, RoundTripName)
    /\ last.prior.before # << >>
    /\ SeqHas(last.before, RoundTripName)

\* the caller is no administrator or creator of the chat and is not in the
\* script's list of admin ids
Unauthorized(u) ==
    /\ memberStatus[u] \notin {"administrator", "creator"}
    /\ u \notin (IF variant = "index" THEN ADMIN_IDS ELSE GM_ADMIN_IDS)

\* C23: a command from an unauthorized caller changes no list, welcome text or
\* banned-script list and issues no ban or unban request.
C23_UnauthorizedChangesNothing ==
    [][(last'.kind = "command" /\ Unauthorized(last'.user)) =>
         /\ groups' = groups
         /\ globals' = globals
         /\ chatCfg' = chatCfg
         /\ ~Made(last'.calls, "kickChatMember")
         /\ ~Made(last'.calls, "banChatMember")
         /\ ~Made(last'.calls, "unbanChatMember")]_vars
C23_Witness ==
    /\ last.kind = "command"
    /\ Unauthorized(last.user)
    /\ last.stage = "denied"
    /\ \/ variant = "index" /\ 1 \in DOMAIN groups /\ groups[1].blacklist # {}
       \/ variant = "gm" /\ last.gate = "removelang"
                         /\ SeqHas(chatCfg[1].languages, "chinese")

\* the sender of the message handled in this step, as the lists and roles
\* stand when it arrives
SenderExempt ==
    \/ memberStatus[last'.user] \in {"administrator", "creator"}
    \/ last'.user \in globals.whitelist \cup getGroup(last'.chat).whitelist
SenderBlacklisted ==
    last'.user \in globals.blacklist \cup getGroup(last'.chat).blacklist

\* C24: exemption and blacklist come before the challenge: with a live entry,
\* the text of an exempt sender leaves the entry as it is and kicks nobody, and
\* the text of a blacklisted sender who is not exempt gets the ban.
C24_ExemptionBlacklistGate ==
    [][(/\ last'.kind = "text"
        /\ Key(last'.chat, last'.user) \in DOMAIN captchaStore) =>
         /\ SenderExempt =>
              /\ captchaStore' = captchaStore
              /\ ~Made(last'.calls, "kickChatMember")
         /\ (SenderBlacklisted /\ ~SenderExempt) =>
              /\ last'.stage = "blacklist"
              /\ Made(last'.calls, "kickChatMember")]_vars

\* C25: the join of a member who is no bot and not whitelisted, in a chat with
\* the captcha on, requests the restriction and installs the entry of the pair
\* with no try used, the deadline 120 s after the join and the sum of the two
\* operands of the prompt, each in 1..9, whether or not the calls succeed; no
\* other step changes the answer or the deadline of an entry.
C25_ChallengeInstalled ==
    [][/\ (/\ last'.kind = "join"
           /\ ~last'.bot
           /\ last'.user \notin globals.whitelist \cup getGroup(last'.chat).whitelist
           /\ getGroup(last'.chat).captcha) =>
            LET k == Key(last'.chat, last'.user) IN
            /\ Made(last'.calls, "restrictChatMember:deny")
            /\ k \in DOMAIN captchaStore'
            /\ captchaStore'[k].tries = 0
            /\ captchaStore'[k].expiresAt = now + 120
            /\ last'.text[1] \in 1..9 /\ last'.text[2] \in 1..9
            /\ captchaStore'[k].answer = last'.text[1] + last'.text[2]
            /\ captchaStore'[k].answer \in 2..18
       /\ \A k \in DOMAIN captchaStore \cap DOMAIN captchaStore' :
            ~(last'.kind = "join" /\ k = Key(last'.chat, last'.user)) =>
              /\ captchaStore'[k].answer = captchaStore[k].answer
              /\ captchaStore'[k].expiresAt = captchaStore[k].expiresAt]_vars
C25_Witness ==
    /\ last.kind = "join"
    /\ last.stage = "challenged"
    /\ Made(last.calls, "restrictChatMember:deny")
    /\ ~MadeOk(last.calls, "restrictChatMember:deny")
    /\ now = 1
    /\ captchaStore[Key(last.chat, last.user)].answer = 18
    /\ captchaStore[Key(last.chat, last.user)].expiresAt = 121

\* C26: flood violations of a pair come at most once per floodLimit + 1
\* messages recorded for it, and the clearing after a violation removes only
\* what the window held when the violation was raised.
C26_FloodOncePerBurst ==
    /\ [](\A k \in Keys :
            Issued(k, "flood") * (DefaultFloodLimit + 1) <= Issued(k, "recorded"))
    /\ [][(last'.kind = "resume" /\ last'.stage = "flood") =>
            messageWindow[Key(last'.chat, last'.user)] = last'.before]_vars

\* C27: no increment is lost: once the handlers of k violations of a user
\* have finished, k below the threshold, the stored count is k.
C27_NoLostIncrement ==
    \A u \in Users :
      (/\ \A i \in 1..Len(inflight) : inflight[i].key[2] # u
       /\ Issued(u, "violation") < MuteThreshold) =>
        userDocs[u] = Issued(u, "violation")

\* the warning count the script holds for user u in chat c
CountFor(c, u) == IF variant = "gm" THEN warnings[Key(c, u)] ELSE userDocs[u]
CountForAfter(c, u) == IF variant = "gm" THEN warnings'[Key(c, u)] ELSE userDocs'[u]

\* C28: the handling of a message of user u in chat c leaves the warning count
\* of every other (user, chat) pair as it was.
C28_CountsPerUserAndChat ==
    [][(last'.kind = "text" /\ variant \in {"gm", "v1", "v2"}) =>
         \A c \in Chats, u \in Users :
           (c # last'.chat \/ u # last'.user) =>
             CountForAfter(c, u) = CountFor(c, u)]_vars

\* a message of index.js, text or not, of a sender who is not exempt, not
\* blacklisted and has no entry in the captcha store, on which no rule fired
QuietMessage ==
    /\ variant = "index"
    /\ \/ last.kind = "text" /\ last.stage = "rules" /\ last.reasons = << >>
       \/ last.kind = "media" /\ Key(last.chat, last.user) \notin DOMAIN captchaStore
    /\ ~ExemptSender
    /\ last.user \notin globals.blacklist \cup getGroup(last.chat).blacklist

\* C29: such a message deletes nothing, bans, kicks and mutes nobody, sends no
\* notice and counts nothing, and the sender's window afterwards is the window
\* before it without the timestamps older than the window length, with the
\* timestamp of the message at its end.
C29_QuietMessageOnlyRecorded ==
    QuietMessage =>
      /\ \A i \in 1..Len(last.calls) : last.calls[i].op = "getChatMember"
      /\ messageWindow[Key(last.chat, last.user)]
           = SelectSeq(Append(last.before, now),
                       LAMBDA ts : ts > now - DefaultFloodWindowSec)

\* C30: whatever the order of the first references to a chat, the document
\* created for it holds the defaults, and no referencing handler is left
\* without it.
C30_OneDefaultConfig ==
    /\ [](last.kind = "text" => last.stage # "threw")
    /\ [][\A c \in Chats :
            (c \notin DOMAIN groups /\ c \in DOMAIN groups') =>
              groups'[c] = DefaultGroup]_vars

====
